---- MODULE Spec2Model ----
(***************************************************************************)
(* State-machine model of the REI Nationwide API server (src/api/main.py)  *)
(* and of the skip-trace command of its Slack bot (src/slack_bot/bot.py):  *)
(* the users and activity_log tables, the JWT helpers, the access guards   *)
(* and one action per HTTP handler.  Every handler runs without yielding   *)
(* between its storage statements, so a request is one atomic step on one  *)
(* event loop; register is modelled a second time statement by statement,  *)
(* for server processes that share the database and run in parallel.       *)
(* Time is counted in whole seconds, the resolution of the JWT exp claim   *)
(* and of SQLite's CURRENT_TIMESTAMP.                                      *)
(***************************************************************************)
EXTENDS Integers, Sequences, FiniteSets, TLC

VARIABLES users, activity_log, now, wallet, req, resp, workers, slack

vars == <<users, activity_log, now, wallet, req, resp, workers, slack>>

----------------------------------------------------------------------------
(* Bounds of the model *)

MaxUsers == 2
MaxLog == 2
MaxTokens == 1

(* Request inputs *)

Emails == {"a@x", "b@x"}
Passwords == {"pw1", "pw2"}
PasswordOf == [e \in Emails |-> IF e = "a@x" THEN "pw1" ELSE "pw2"]
NameOf == [e \in Emails |-> IF e = "a@x" THEN "Al" ELSE "Bo"]
Roles == {"admin", "manager", "acquisitions", "member"}
Salt == "s1"
ClientHost == "10.0.0.1"
Address == "1 Main St"
Location == "Plano, TX"
Query == "q"
AiModel == "gpt-4o"

(* Instants at which requests arrive; the clock only moves forward *)
Instants == {0, 86399, 86400, 86401}

NULL == -1

----------------------------------------------------------------------------
(* Configuration *)

JWT_SECRET == "rei-nationwide-secret-change-in-production"
JWT_EXPIRY_HOURS == 24
SecondsPerHour == 3600
OtherSecret == "not-the-secret"

----------------------------------------------------------------------------
(* Credentials presented with a request *)

NoPayload == [user_id |-> 0, email |-> "", role |-> "", exp |-> 0]
NoToken == [kind |-> "none", payload |-> NoPayload, key |-> ""]
Garbage == [kind |-> "garbage", payload |-> NoPayload, key |-> ""]

(* jwt.encode: the payload signed with the given key *)
jwt_encode(payload, key) == [kind |-> "jwt", payload |-> payload, key |-> key]

(* mutant: the token names the first user, whoever it is issued to *)
create_token_first(user_id, email, role, t) ==
    jwt_encode([user_id |-> 1, email |-> email, role |-> role,
                exp |-> t + JWT_EXPIRY_HOURS * SecondsPerHour], JWT_SECRET)

create_token(user_id, email, role, t) ==
    jwt_encode([user_id |-> user_id, email |-> email, role |-> role,
                exp |-> t + JWT_EXPIRY_HOURS * SecondsPerHour], JWT_SECRET)

(* mutant: the exp claim is not verified *)
decode_token_no_exp(token, t) ==
    IF token.kind # "jwt" \/ token.key # JWT_SECRET
    THEN [ok |-> FALSE, status |-> 401, detail |-> "Invalid token", payload |-> NoPayload]
    ELSE [ok |-> TRUE, status |-> 200, detail |-> "", payload |-> token.payload]

(* jwt.decode: structure, then signature, then the exp claim, which has    *)
(* passed once the clock reaches it                                        *)
decode_token(token, t) ==
    IF token.kind # "jwt" \/ token.key # JWT_SECRET
    THEN [ok |-> FALSE, status |-> 401, detail |-> "Invalid token", payload |-> NoPayload]
    ELSE IF token.payload.exp <= t
    THEN [ok |-> FALSE, status |-> 401, detail |-> "Token expired", payload |-> NoPayload]
    ELSE [ok |-> TRUE, status |-> 200, detail |-> "", payload |-> token.payload]

(* HTTPBearer: a request without bearer credentials is refused by the       *)
(* framework, with 403 or 401 depending on the FastAPI release              *)
BearerRefusals == {401, 403}

(* mutant: the guard looks the user up and refuses a disabled account *)
get_current_user_live(cred, t, refusal) ==
    IF cred.kind = "none"
    THEN [ok |-> FALSE, status |-> refusal, detail |-> "Not authenticated", payload |-> NoPayload]
    ELSE IF decode_token(cred, t).ok
            /\ \E i \in 1..Len(users) :
                  users[i].id = cred.payload.user_id /\ ~users[i].is_active
    THEN [ok |-> FALSE, status |-> 401, detail |-> "Account disabled", payload |-> NoPayload]
    ELSE decode_token(cred, t)

get_current_user(cred, t, refusal) ==
    IF cred.kind = "none"
    THEN [ok |-> FALSE, status |-> refusal, detail |-> "Not authenticated", payload |-> NoPayload]
    ELSE decode_token(cred, t)

(* mutant: the role is not compared with the allowed roles *)
role_checker_any(allowed_roles, user) == user

role_checker(allowed_roles, user) ==
    IF ~user.ok THEN user
    ELSE IF user.payload.role \notin allowed_roles
    THEN [ok |-> FALSE, status |-> 403, detail |-> "Insufficient permissions", payload |-> NoPayload]
    ELSE user

(* mutant: every guard checks the role list of the skip-trace endpoint *)
require_role_shared(allowed_roles, cred, t, refusal) ==
    role_checker({"admin", "manager", "acquisitions"}, get_current_user(cred, t, refusal))

require_role(allowed_roles, cred, t, refusal) ==
    role_checker(allowed_roles, get_current_user(cred, t, refusal))

----------------------------------------------------------------------------
(* Password hashing: a salted digest, verified by re-hashing with the salt *)

bcrypt_hash(password, salt) == <<"$2b$", salt, password>>
(* mutant: any password verifies *)
bcrypt_verify_any(password, hash) == TRUE

bcrypt_verify(password, hash) == bcrypt_hash(password, hash[2]) = hash

----------------------------------------------------------------------------
(* Responses *)

Response(op, status, detail, kind, token, calls) ==
    [op |-> op, status |-> status, detail |-> detail, kind |-> kind,
     token |-> token, calls |-> calls, body |-> <<>>]

WithBody(r, body) == [r EXCEPT !.body = body]

HTTPException(op, status, detail, calls) ==
    Response(op, status, detail, "http_error", NoToken, calls)

(* an exception no handler catches: the framework answers 500 *)
ServerError(op, calls) ==
    Response(op, 500, "Internal Server Error", "server_error", NoToken, calls)

UserResponse(id, email, name, role, is_active) ==
    [id |-> id, email |-> email, name |-> name, role |-> role, is_active |-> is_active]

Outcome(u, log, r) == [users |-> u, activity_log |-> log, resp |-> r]

----------------------------------------------------------------------------
(* Activity logging *)

(* mutant: the insert replaces the table's rows *)
log_activity_replace(log, user_id, action, endpoint, details, ip, t) ==
    <<[id |-> 1, user_id |-> user_id, action |-> action, endpoint |-> endpoint,
       details |-> details, ip_address |-> ip, created_at |-> t]>>

log_activity(log, user_id, action, endpoint, details, ip, t) ==
    Append(log, [id |-> Len(log) + 1, user_id |-> user_id, action |-> action,
                 endpoint |-> endpoint, details |-> details, ip_address |-> ip,
                 created_at |-> t])

(* mutant: the lookup compares the wrong column *)
FindByEmail_name(email) == {i \in 1..Len(users) : users[i].name = email}

(* mutant: the lookup by id returns the first row *)
FindById_first(id) == {i \in 1..Len(users) : i = 1}

FindByEmail(email) == {i \in 1..Len(users) : users[i].email = email}
FindById(id) == {i \in 1..Len(users) : users[i].id = id}

----------------------------------------------------------------------------
(* Auth endpoints *)

(* the request model of register: a body without a role gets the default *)
Omitted == "(omitted)"

UserCreate(email, password, name, role) ==
    [email |-> email, password |-> password, name |-> name,
     role |-> IF role = Omitted THEN "member" ELSE role]

register(user, logFails) ==
    LET op == "register" IN
    IF FindByEmail(user.email) # {}
    THEN Outcome(users, activity_log, HTTPException(op, 400, "Email already registered", <<>>))
    ELSE
      LET user_id == Len(users) + 1
          row == [id |-> user_id, email |-> user.email,
                  password_hash |-> bcrypt_hash(user.password, Salt),
                  name |-> user.name, role |-> user.role, is_active |-> TRUE,
                  created_at |-> now, last_login |-> NULL]
          users1 == Append(users, row)
          token == create_token(user_id, user.email, user.role, now)
      IN IF logFails
         THEN Outcome(users1, activity_log, ServerError(op, <<>>))
         ELSE Outcome(users1,
                      log_activity(activity_log, user_id, "register",
                                   "/api/v1/auth/register", "", ClientHost, now),
                      WithBody(Response(op, 200, "", "token", token, <<>>),
                               UserResponse(user_id, user.email, user.name, user.role, TRUE)))

(* mutant: the active flag is not looked at *)
account_disabled_never(user) == FALSE

account_disabled(user) == ~user.is_active

login(credentials, touchFails, logFails) ==
    LET op == "login"
        found == FindByEmail(credentials.email)
    IN
    IF found = {} \/ ~bcrypt_verify(credentials.password,
                                    users[CHOOSE i \in found : TRUE].password_hash)
    THEN Outcome(users, activity_log, HTTPException(op, 401, "Invalid credentials", <<>>))
    ELSE
      LET i == CHOOSE j \in found : TRUE
          user == users[i]
      IN IF account_disabled(user)
         THEN Outcome(users, activity_log, HTTPException(op, 401, "Account disabled", <<>>))
         ELSE IF touchFails
         THEN Outcome(users, activity_log, ServerError(op, <<>>))
         ELSE
           LET users1 == [users EXCEPT ![i].last_login = now]
               token == create_token(user.id, user.email, user.role, now)
           IN IF logFails
              THEN Outcome(users1, activity_log, ServerError(op, <<>>))
              ELSE Outcome(users1,
                           log_activity(activity_log, user.id, "login",
                                        "/api/v1/auth/login", "", ClientHost, now),
                           WithBody(Response(op, 200, "", "token", token, <<>>),
                                    UserResponse(user.id, user.email, user.name, user.role, TRUE)))

get_me(cred, refusal) ==
    LET op == "get_me"
        user == get_current_user(cred, now, refusal)
    IN
    IF ~user.ok
    THEN Outcome(users, activity_log, HTTPException(op, user.status, user.detail, <<>>))
    ELSE
      LET found == FindById(user.payload.user_id) IN
      IF found = {}
      THEN Outcome(users, activity_log, HTTPException(op, 404, "User not found", <<>>))
      ELSE LET row == users[CHOOSE i \in found : TRUE] IN
           Outcome(users, activity_log,
                   WithBody(Response(op, 200, "", "user", NoToken, <<>>),
                            UserResponse(row.id, row.email, row.name, row.role, row.is_active)))

----------------------------------------------------------------------------
(* Upstream gateway *)

(* what the network does with one outbound call: the call raises (timeout, *)
(* connection error, HTTP error status), or a JSON document comes back      *)
NetRaise == [raised |-> TRUE, data |-> <<>>]
NetEmpty == [raised |-> FALSE, data |-> <<>>]
NetHit == [raised |-> FALSE, data |-> <<"A1", "A2">>]
NetOutcomes == {NetRaise, NetEmpty, NetHit}

(* RealEstateAPI._post: exceptions become the value {error, data: []} *)
_post(net) ==
    IF net.raised THEN [error |-> TRUE, data |-> <<>>]
    ELSE [error |-> FALSE, data |-> net.data]

Call(endpoint, arg) == [endpoint |-> endpoint, arg |-> arg]

ResultKind(result) == IF result.error THEN "error_value" ELSE "result"

(* query_openai: no key, no call; otherwise nothing catches a failing call *)
AiOutcomes == {"unconfigured", "raise", "no_choices", "ok"}

query_openai(ai) ==
    IF ai = "unconfigured"
    THEN [raised |-> FALSE, calls |-> <<>>, text |-> "OpenAI not configured"]
    ELSE IF ai = "raise"
    THEN [raised |-> TRUE, calls |-> <<Call("chat/completions", Query)>>, text |-> ""]
    ELSE IF ai = "no_choices"
    THEN [raised |-> FALSE, calls |-> <<Call("chat/completions", Query)>>, text |-> "No response"]
    ELSE [raised |-> FALSE, calls |-> <<Call("chat/completions", Query)>>, text |-> "answer"]

----------------------------------------------------------------------------
(* Business endpoints *)

(* a handler that forwards one call, logs, and returns a payload *)
search_properties(cred, refusal, net, logFails) ==
    LET op == "search_properties"
        user == get_current_user(cred, now, refusal)
    IN
    IF ~user.ok
    THEN Outcome(users, activity_log, HTTPException(op, user.status, user.detail, <<>>))
    ELSE
      LET result == _post(net)
          calls == <<Call("PropertySearch", Location)>>
      IN IF logFails
         THEN Outcome(users, activity_log, ServerError(op, calls))
         ELSE Outcome(users,
                      log_activity(activity_log, user.payload.user_id, "property_search",
                                   "/api/v1/properties/search", Location, ClientHost, now),
                      WithBody(Response(op, 200, "", ResultKind(result), NoToken, calls),
                               result))

(* mutant: the address id is taken from the last candidate *)
address_id_last(autocomplete) == autocomplete.data[Len(autocomplete.data)]

(* autocomplete["data"][0].get("address_id") *)
address_id_first(autocomplete) == autocomplete.data[1]

(* autocomplete, then a second call on the first candidate's address id *)
AddressOp(op, user, second, action, endpoint, net1, net2, logFails, wrap) ==
    IF ~user.ok
    THEN Outcome(users, activity_log, HTTPException(op, user.status, user.detail, <<>>))
    ELSE
      LET autocomplete == _post(net1)
          calls1 == <<Call("AutoComplete", Address)>>
      IN IF autocomplete.data = <<>>
         THEN Outcome(users, activity_log, HTTPException(op, 404, "Address not found", calls1))
         ELSE
           LET address_id == address_id_first(autocomplete)
               result == _post(net2)
               calls == Append(calls1, Call(second, address_id))
           IN IF logFails
              THEN Outcome(users, activity_log, ServerError(op, calls))
              ELSE Outcome(users,
                           log_activity(activity_log, user.payload.user_id, action,
                                        endpoint, Address, ClientHost, now),
                           WithBody(Response(op, 200, "", ResultKind(result), NoToken, calls),
                                    IF wrap
                                    THEN [autocomplete |-> autocomplete, detail |-> result]
                                    ELSE result))

lookup_property(cred, refusal, net1, net2, logFails) ==
    AddressOp("lookup_property", get_current_user(cred, now, refusal), "PropertyDetail",
              "property_lookup", "/api/v1/properties/lookup", net1, net2, logFails, TRUE)

get_comps(cred, refusal, net1, net2, logFails) ==
    AddressOp("get_comps", get_current_user(cred, now, refusal), "PropertyComps",
              "get_comps", "/api/v1/properties/comps", net1, net2, logFails, FALSE)

SkipTraceRoles == {"admin", "manager", "acquisitions"}

skip_trace(cred, refusal, net1, net2, logFails) ==
    AddressOp("skip_trace", require_role(SkipTraceRoles, cred, now, refusal), "SkipTrace",
              "skip_trace", "/api/v1/skip-trace", net1, net2, logFails, FALSE)

(* owners with at least min_purchases properties in the result *)
MinPurchases == 2

PortfolioBuyers(data) ==
    {o \in {data[i] : i \in 1..Len(data)} :
        Cardinality({i \in 1..Len(data) : data[i] = o}) >= MinPurchases}

search_buyers(cred, refusal, net, logFails) ==
    LET op == "search_buyers"
        user == get_current_user(cred, now, refusal)
    IN
    IF ~user.ok
    THEN Outcome(users, activity_log, HTTPException(op, user.status, user.detail, <<>>))
    ELSE
      LET result == _post(net)
          calls == <<Call("PropertySearch", Location)>>
      IN IF logFails
         THEN Outcome(users, activity_log, ServerError(op, calls))
         ELSE Outcome(users,
                      log_activity(activity_log, user.payload.user_id, "buyer_search",
                                   "/api/v1/buyers/search", Location, ClientHost, now),
                      WithBody(Response(op, 200, "", "buyers", NoToken, calls),
                               [buyers |-> PortfolioBuyers(result.data)]))

(* mutant: the activity record is written before the AI call is made *)
ai_query_logs_first(cred, refusal, ai, logFails) ==
    LET op == "ai_query"
        user == get_current_user(cred, now, refusal)
    IN
    IF ~user.ok
    THEN Outcome(users, activity_log, HTTPException(op, user.status, user.detail, <<>>))
    ELSE IF logFails
    THEN Outcome(users, activity_log, ServerError(op, <<>>))
    ELSE
      LET log1 == log_activity(activity_log, user.payload.user_id, "ai_query",
                               "/api/v1/ai/query", Query, ClientHost, now)
          response == query_openai(ai)
      IN IF response.raised
         THEN Outcome(users, log1, ServerError(op, response.calls))
         ELSE Outcome(users, log1,
                      WithBody(Response(op, 200, "", "ai", NoToken, response.calls),
                               [response |-> response.text, model |-> AiModel]))

ai_query(cred, refusal, ai, logFails) ==
    LET op == "ai_query"
        user == get_current_user(cred, now, refusal)
    IN
    IF ~user.ok
    THEN Outcome(users, activity_log, HTTPException(op, user.status, user.detail, <<>>))
    ELSE
      LET response == query_openai(ai) IN
      IF response.raised
      THEN Outcome(users, activity_log, ServerError(op, response.calls))
      ELSE IF logFails
      THEN Outcome(users, activity_log, ServerError(op, response.calls))
      ELSE Outcome(users,
                   log_activity(activity_log, user.payload.user_id, "ai_query",
                                "/api/v1/ai/query", Query, ClientHost, now),
                   WithBody(Response(op, 200, "", "ai", NoToken, response.calls),
                            [response |-> response.text, model |-> AiModel]))

----------------------------------------------------------------------------
(* Admin endpoints *)

ListUsersRoles == {"admin"}
ActivityRoles == {"admin", "manager"}

list_users(cred, refusal) ==
    LET op == "list_users"
        user == require_role(ListUsersRoles, cred, now, refusal)
    IN
    IF ~user.ok
    THEN Outcome(users, activity_log, HTTPException(op, user.status, user.detail, <<>>))
    ELSE Outcome(users, activity_log,
                 WithBody(Response(op, 200, "", "users", NoToken, <<>>),
                          [i \in 1..Len(users) |->
                              [id |-> users[i].id, email |-> users[i].email,
                               name |-> users[i].name, role |-> users[i].role,
                               is_active |-> users[i].is_active,
                               created_at |-> users[i].created_at,
                               last_login |-> users[i].last_login]]))

(* the row orders ORDER BY a.created_at DESC allows: ties are in any order *)
RowOrders ==
    {f \in [1..Len(activity_log) -> 1..Len(activity_log)] :
        /\ \A i, j \in 1..Len(activity_log) : i # j => f[i] # f[j]
        /\ \A i, j \in 1..Len(activity_log) :
              i < j => activity_log[f[i]].created_at >= activity_log[f[j]].created_at}

Min(a, b) == IF a < b THEN a ELSE b

(* LEFT JOIN users: name and email of the actor, NULL when there is none *)
ActivityRow(a) ==
    LET found == FindById(a.user_id) IN
    [id |-> a.id,
     user_name |-> IF found = {} THEN "NULL" ELSE users[CHOOSE i \in found : TRUE].name,
     user_email |-> IF found = {} THEN "NULL" ELSE users[CHOOSE i \in found : TRUE].email,
     action |-> a.action, endpoint |-> a.endpoint, details |-> a.details,
     ip |-> a.ip_address, timestamp |-> a.created_at]

get_activity(cred, refusal, limit, order) ==
    LET op == "get_activity"
        user == require_role(ActivityRoles, cred, now, refusal)
    IN
    IF ~user.ok
    THEN Outcome(users, activity_log, HTTPException(op, user.status, user.detail, <<>>))
    ELSE Outcome(users, activity_log,
                 WithBody(Response(op, 200, "", "activity", NoToken, <<>>),
                          [i \in 1..Min(limit, Len(activity_log)) |->
                              ActivityRow(activity_log[order[i]])]))

(* mutant: the health probe writes an activity record *)
health_check_logged ==
    Outcome(users,
            log_activity(activity_log, 0, "health", "/health", "", ClientHost, now),
            Response("health_check", 200, "", "health", NoToken, <<>>))

health_check ==
    Outcome(users, activity_log, Response("health_check", 200, "", "health", NoToken, <<>>))

root ==
    Outcome(users, activity_log, Response("root", 200, "", "root", NoToken, <<>>))

----------------------------------------------------------------------------
(* Slack bot: the skip-trace command *)

(* what str(e) of a failed call can read *)
TimeoutText == "timed out"
ForbiddenText == "Client error '403 Forbidden' for url"
ErrorTexts == {TimeoutText, ForbiddenText}

(* the JSON document of an API response; a 500 has a plain-text body *)
ResponseJson(r, errText) ==
    IF r.kind = "http_error" THEN [keys |-> {"detail"}, error |-> "", parses |-> TRUE]
    ELSE IF r.kind = "server_error" THEN [keys |-> {}, error |-> "", parses |-> FALSE]
    ELSE IF r.kind = "error_value"
    THEN [keys |-> {"error", "data"}, error |-> errText, parses |-> TRUE]
    ELSE [keys |-> {"data"}, error |-> "", parses |-> TRUE]

(* APIClient.post_sync: the body of whatever response came back, whatever  *)
(* its status; {"error": str(e)} when the call or the JSON parsing raised  *)
post_sync(transport, r, errText) ==
    IF transport = "down" THEN [keys |-> {"error"}, error |-> TimeoutText]
    ELSE IF ~ResponseJson(r, errText).parses
    THEN [keys |-> {"error"}, error |-> "Expecting value: line 1 column 1 (char 0)"]
    ELSE [keys |-> ResponseJson(r, errText).keys, error |-> ResponseJson(r, errText).error]

(* "403" in str(error) or "permission" in str(error).lower() *)
MentionsForbidden(text) == text = ForbiddenText

Usage == "Please provide an address"
Progress == "Skip tracing owner"
Restricted == "Skip trace is restricted to managers and acquisitions team."
ErrorReply == "Error"
Results == "Skip Trace Results"

(* the messages handle_skip_trace posts once the API call has returned *)
handle_skip_trace(result) ==
    IF "error" \in result.keys
    THEN IF MentionsForbidden(result.error)
         THEN <<Progress, Restricted>>
         ELSE <<Progress, ErrorReply>>
    ELSE <<Progress, Results>>

----------------------------------------------------------------------------
(* Requests *)

(* a forged token: an admin payload signed with a key that is not the secret *)
Forged ==
    jwt_encode([user_id |-> 1, email |-> "a@x", role |-> "admin", exp |-> 200000], OtherSecret)

(* a token of this API whose user has no row in the users table *)
Orphan == create_token(7, "gone@x", "member", 0)

(* the credentials a request may carry: a token the client holds, or one of *)
(* the given credentials that the API never issued                          *)
Credentials(P) == wallet \cup P.strangers

Refusals(cred) == IF cred.kind = "none" THEN BearerRefusals ELSE {401}

NoRequest ==
    [op |-> "none", cred |-> NoToken, email |-> "", password |-> "", role |-> "",
     net1 |-> NetEmpty, net2 |-> NetEmpty, ai |-> "", logFails |-> FALSE,
     touchFails |-> FALSE, limit |-> 0]

Request(op) == [NoRequest EXCEPT !.op = op]

(* the client keeps the tokens it is given, the newest ones when it has no room *)
Keep(token) ==
    IF token.kind # "jwt" THEN wallet
    ELSE IF Cardinality(wallet \cup {token}) <= MaxTokens THEN wallet \cup {token}
    ELSE {token}

(* inputs a request does not get to use are left out of its record *)
Used(request, r) ==
    LET bare == [Request(request.op) EXCEPT !.cred = request.cred, !.email = request.email,
                                            !.password = request.password,
                                            !.role = request.role, !.limit = request.limit]
    IN
    IF r.status \in {400, 401, 403} THEN bare
    ELSE IF r.status = 404 THEN [bare EXCEPT !.net1 = request.net1]
    ELSE IF r.status = 500 /\ request.ai = "raise" THEN [bare EXCEPT !.ai = request.ai]
    ELSE IF r.status = 500 /\ request.touchFails THEN [bare EXCEPT !.touchFails = TRUE]
    ELSE request

NoResponse == Response("none", 0, "", "none", NoToken, <<>>)

(* server processes handling register requests in parallel, and where each *)
(* of them stands in the handler                                           *)
Workers == {"w1", "w2"}

Idle ==
    [pc |-> "idle", email |-> "", role |-> "", fresh |-> FALSE, user_id |-> 0,
     resp |-> NoResponse]

(* req and resp describe the request the latest step handled, if it was   *)
(* one, and slack the messages the bot posted if the request came from it  *)
HandleVia(request, out, replies) ==
    /\ Len(out.users) <= MaxUsers
    /\ Len(out.activity_log) <= MaxLog
    /\ users' = out.users
    /\ activity_log' = out.activity_log
    /\ resp' = out.resp
    /\ req' = Used(request, out.resp)
    /\ wallet' = Keep(out.resp.token)
    /\ slack' = replies
    /\ UNCHANGED <<now, workers>>

Handle(request, out) == HandleVia(request, out, <<>>)

Init ==
    /\ users = <<>>
    /\ activity_log = <<>>
    /\ now = 0
    /\ wallet = {}
    /\ req = NoRequest
    /\ resp = NoResponse
    /\ workers = [w \in Workers |-> Idle]
    /\ slack = <<>>

(* The inputs a specification draws its requests from *)
AllInputs ==
    [emails |-> Emails, roles |-> Roles, passwords |-> Passwords,
     nets1 |-> NetOutcomes, nets2 |-> {NetRaise, NetHit}, ais |-> AiOutcomes,
     logFaults |-> BOOLEAN, touchFaults |-> BOOLEAN, limits |-> {1, 100},
     instants |-> Instants, strangers |-> {Forged, Garbage, NoToken}]

Register(P) ==
    \E e \in P.emails : \E r \in P.roles, logFails \in P.logFaults :
        Handle([Request("register") EXCEPT !.email = e, !.password = PasswordOf[e],
                                           !.role = r, !.logFails = logFails],
               register(UserCreate(e, PasswordOf[e], NameOf[e], r), logFails))

Login(P) ==
    \E e \in P.emails : \E p \in P.passwords, touchFails \in P.touchFaults,
                             logFails \in P.logFaults :
        Handle([Request("login") EXCEPT !.email = e, !.password = p,
                                        !.touchFails = touchFails, !.logFails = logFails],
               login([email |-> e, password |-> p], touchFails, logFails))

GetMe(P) ==
    \E cred \in Credentials(P) : \E refusal \in Refusals(cred) :
        Handle([Request("get_me") EXCEPT !.cred = cred], get_me(cred, refusal))

SearchProperties(P) ==
    \E cred \in Credentials(P) : \E refusal \in Refusals(cred), net \in P.nets1,
       logFails \in P.logFaults :
        Handle([Request("search_properties") EXCEPT !.cred = cred, !.net1 = net,
                                                    !.logFails = logFails],
               search_properties(cred, refusal, net, logFails))

LookupProperty(P) ==
    \E cred \in Credentials(P) : \E refusal \in Refusals(cred), net1 \in P.nets1,
       net2 \in P.nets2, logFails \in P.logFaults :
        Handle([Request("lookup_property") EXCEPT !.cred = cred, !.net1 = net1,
                                                  !.net2 = net2, !.logFails = logFails],
               lookup_property(cred, refusal, net1, net2, logFails))

GetComps(P) ==
    \E cred \in Credentials(P) : \E refusal \in Refusals(cred), net1 \in P.nets1,
       net2 \in P.nets2, logFails \in P.logFaults :
        Handle([Request("get_comps") EXCEPT !.cred = cred, !.net1 = net1,
                                            !.net2 = net2, !.logFails = logFails],
               get_comps(cred, refusal, net1, net2, logFails))

SkipTrace(P) ==
    \E cred \in Credentials(P) : \E refusal \in Refusals(cred), net1 \in P.nets1,
       net2 \in P.nets2, logFails \in P.logFaults :
        Handle([Request("skip_trace") EXCEPT !.cred = cred, !.net1 = net1,
                                             !.net2 = net2, !.logFails = logFails],
               skip_trace(cred, refusal, net1, net2, logFails))

SearchBuyers(P) ==
    \E cred \in Credentials(P) : \E refusal \in Refusals(cred), net \in P.nets1,
       logFails \in P.logFaults :
        Handle([Request("search_buyers") EXCEPT !.cred = cred, !.net1 = net,
                                                !.logFails = logFails],
               search_buyers(cred, refusal, net, logFails))

AiQuery(P) ==
    \E cred \in Credentials(P) : \E refusal \in Refusals(cred), ai \in P.ais,
       logFails \in P.logFaults :
        Handle([Request("ai_query") EXCEPT !.cred = cred, !.ai = ai,
                                           !.logFails = logFails],
               ai_query(cred, refusal, ai, logFails))

ListUsers(P) ==
    \E cred \in Credentials(P) : \E refusal \in Refusals(cred) :
        Handle([Request("list_users") EXCEPT !.cred = cred], list_users(cred, refusal))

GetActivity(P) ==
    \E cred \in Credentials(P) : \E refusal \in Refusals(cred), limit \in P.limits,
       order \in RowOrders :
        Handle([Request("get_activity") EXCEPT !.cred = cred, !.limit = limit],
               get_activity(cred, refusal, limit, order))

(* /rei skip <address>: the bot calls the skip-trace endpoint with its      *)
(* token and posts what handle_skip_trace makes of the answer              *)
SlackSkipTrace(P) ==
    \/ /\ req' = Request("slack_skip_trace")
       /\ resp' = NoResponse
       /\ slack' = <<Usage>>
       /\ UNCHANGED <<users, activity_log, now, wallet, workers>>
    \/ /\ req' = Request("slack_skip_trace")
       /\ resp' = NoResponse
       /\ slack' = handle_skip_trace(post_sync("down", NoResponse, TimeoutText))
       /\ UNCHANGED <<users, activity_log, now, wallet, workers>>
    \/ \E cred \in Credentials(P) : \E refusal \in Refusals(cred), net1 \in P.nets1,
          net2 \in P.nets2, logFails \in P.logFaults, errText \in ErrorTexts :
           HandleVia([Request("slack_skip_trace") EXCEPT !.cred = cred, !.net1 = net1,
                                                        !.net2 = net2,
                                                        !.logFails = logFails],
                     skip_trace(cred, refusal, net1, net2, logFails),
                     handle_skip_trace(
                         post_sync("ok", skip_trace(cred, refusal, net1, net2, logFails).resp,
                                   errText)))

HealthCheck == Handle(Request("health_check"), health_check)

Root == Handle(Request("root"), root)

(* an administrator changes a user's role or active flag in the users table *)
AdminUpdateUser(P) ==
    \E i \in 1..Len(users), r \in P.roles, active \in BOOLEAN :
        /\ users' = [users EXCEPT ![i].role = r, ![i].is_active = active]
        /\ req' = NoRequest
        /\ resp' = NoResponse
        /\ slack' = <<>>
        /\ UNCHANGED <<activity_log, now, wallet, workers>>

(* time passes *)
Tick(P) ==
    \E t \in P.instants :
        /\ t > now
        /\ now' = t
        /\ req' = NoRequest
        /\ resp' = NoResponse
        /\ slack' = <<>>
        /\ UNCHANGED <<users, activity_log, wallet, workers>>

(* register, one storage statement at a time *)

(* a register request reaches a process; fresh: its email has no row then *)
RegisterBegin(P) ==
    \E w \in Workers, e \in P.emails, r \in P.roles :
        /\ workers[w].pc = "idle"
        /\ workers' = [workers EXCEPT ![w] =
                          [Idle EXCEPT !.pc = "select", !.email = e,
                                       !.role = UserCreate(e, PasswordOf[e], NameOf[e], r).role,
                                       !.fresh = (FindByEmail(e) = {})]]
        /\ UNCHANGED <<users, activity_log, now, wallet, req, resp, slack>>

(* SELECT id FROM users WHERE email = ? *)
RegisterSelect ==
    \E w \in Workers :
        /\ workers[w].pc = "select"
        /\ workers' = [workers EXCEPT ![w] =
                          IF FindByEmail(workers[w].email) # {}
                          THEN [@ EXCEPT !.pc = "done",
                                         !.resp = HTTPException("register", 400,
                                                     "Email already registered", <<>>)]
                          ELSE [@ EXCEPT !.pc = "insert"]]
        /\ UNCHANGED <<users, activity_log, now, wallet, req, resp, slack>>

(* INSERT INTO users: email is UNIQUE, so a second row with the email      *)
(* raises sqlite3.IntegrityError, which nothing catches                    *)
RegisterInsert ==
    \E w \in Workers :
        /\ workers[w].pc = "insert"
        /\ IF FindByEmail(workers[w].email) # {}
           THEN /\ workers' = [workers EXCEPT ![w].pc = "done",
                                              ![w].resp = ServerError("register", <<>>)]
                /\ UNCHANGED users
           ELSE /\ Len(users) < MaxUsers
                /\ users' = Append(users,
                                [id |-> Len(users) + 1, email |-> workers[w].email,
                                 password_hash |->
                                     bcrypt_hash(PasswordOf[workers[w].email], Salt),
                                 name |-> NameOf[workers[w].email],
                                 role |-> workers[w].role, is_active |-> TRUE,
                                 created_at |-> now, last_login |-> NULL])
                /\ workers' = [workers EXCEPT ![w].pc = "log",
                                              ![w].user_id = Len(users) + 1]
        /\ UNCHANGED <<activity_log, now, wallet, req, resp, slack>>

(* create_token, log_activity, and the TokenResponse *)
RegisterLog ==
    \E w \in Workers :
        /\ workers[w].pc = "log"
        /\ Len(activity_log) < MaxLog
        /\ activity_log' = log_activity(activity_log, workers[w].user_id, "register",
                                        "/api/v1/auth/register", "", ClientHost, now)
        /\ workers' = [workers EXCEPT ![w].pc = "done",
                          ![w].resp =
                              WithBody(Response("register", 200, "", "token",
                                                create_token(workers[w].user_id,
                                                             workers[w].email,
                                                             workers[w].role, now), <<>>),
                                       UserResponse(workers[w].user_id, workers[w].email,
                                                    NameOf[workers[w].email],
                                                    workers[w].role, TRUE))]
        /\ UNCHANGED <<users, now, wallet, req, resp, slack>>

(* the response reaches the client and the process takes the next request *)
RegisterReturn ==
    \E w \in Workers :
        /\ workers[w].pc = "done"
        /\ req' = [Request("register") EXCEPT !.email = workers[w].email,
                                             !.password = PasswordOf[workers[w].email],
                                             !.role = workers[w].role]
        /\ resp' = workers[w].resp
        /\ wallet' = Keep(workers[w].resp.token)
        /\ workers' = [workers EXCEPT ![w] = Idle]
        /\ UNCHANGED <<users, activity_log, now, slack>>

(* The whole API.  The specifications below restrict it to the endpoints   *)
(* and inputs one group of properties is about.                            *)
Next ==
    \/ Register(AllInputs)
    \/ Login(AllInputs)
    \/ GetMe(AllInputs)
    \/ SearchProperties(AllInputs)
    \/ LookupProperty(AllInputs)
    \/ GetComps(AllInputs)
    \/ SkipTrace(AllInputs)
    \/ SearchBuyers(AllInputs)
    \/ AiQuery(AllInputs)
    \/ ListUsers(AllInputs)
    \/ GetActivity(AllInputs)
    \/ HealthCheck
    \/ Root
    \/ AdminUpdateUser(AllInputs)
    \/ Tick(AllInputs)

Spec == Init /\ [][Next]_vars

(* Tokens and guards: one account of any role, every protected endpoint,    *)
(* upstream and storage working, the clock running past a token's expiry    *)
GuardInputs ==
    [AllInputs EXCEPT !.emails = {"a@x"}, !.passwords = {"pw1"}, !.nets1 = {NetHit},
                      !.nets2 = {NetHit}, !.ais = {"ok"}, !.logFaults = {FALSE},
                      !.touchFaults = {FALSE}, !.limits = {100}]

NextGuard ==
    \/ Register(GuardInputs)
    \/ Login(GuardInputs)
    \/ GetMe(GuardInputs)
    \/ SearchProperties(GuardInputs)
    \/ LookupProperty(GuardInputs)
    \/ GetComps(GuardInputs)
    \/ SkipTrace(GuardInputs)
    \/ SearchBuyers(GuardInputs)
    \/ AiQuery(GuardInputs)
    \/ ListUsers(GuardInputs)
    \/ GetActivity(GuardInputs)
    \/ Tick(GuardInputs)

SpecGuard == Init /\ [][NextGuard]_vars

(* The credential store: two accounts, right and wrong passwords, accounts  *)
(* disabled and re-enabled by an administrator                              *)
StoreInputs ==
    [AllInputs EXCEPT !.roles = {"admin", "member"}, !.logFaults = {FALSE},
                      !.touchFaults = {FALSE}, !.limits = {100},
                      !.instants = {0, 86399, 86401}]

NextStore ==
    \/ Register(StoreInputs)
    \/ Login(StoreInputs)
    \/ GetMe(StoreInputs)
    \/ ListUsers(StoreInputs)
    \/ AdminUpdateUser(StoreInputs)
    \/ Tick(StoreInputs)

SpecStore == Init /\ [][NextStore]_vars

(* The audit log: every logging endpoint, with the upstream services and    *)
(* the audit insert working or failing                                      *)
AuditInputs ==
    [AllInputs EXCEPT !.emails = {"a@x"}, !.roles = {"admin", "member"},
                      !.passwords = {"pw1"}, !.limits = {1, 100}, !.instants = {0, 1},
                      !.strangers = {}]

NextAudit ==
    \/ Register(AuditInputs)
    \/ Login(AuditInputs)
    \/ GetMe(AuditInputs)
    \/ SearchProperties(AuditInputs)
    \/ LookupProperty(AuditInputs)
    \/ GetComps(AuditInputs)
    \/ SkipTrace(AuditInputs)
    \/ SearchBuyers(AuditInputs)
    \/ AiQuery(AuditInputs)
    \/ ListUsers(AuditInputs)
    \/ GetActivity(AuditInputs)
    \/ HealthCheck
    \/ Root
    \/ Tick(AuditInputs)

SpecAudit == Init /\ [][NextAudit]_vars

(* Sessions: two accounts registering with or without a role, logging in   *)
(* and using their tokens, next to a token whose user row is gone          *)
SessionInputs ==
    [AllInputs EXCEPT !.roles = {"admin", Omitted}, !.nets1 = {NetHit},
                      !.logFaults = {FALSE}, !.touchFaults = {FALSE},
                      !.instants = {0, 86401}, !.strangers = {Orphan}]

NextSession ==
    \/ Register(SessionInputs)
    \/ Login(SessionInputs)
    \/ GetMe(SessionInputs)
    \/ SearchProperties(SessionInputs)
    \/ Tick(SessionInputs)

SpecSession == Init /\ [][NextSession]_vars

(* Parallel registration: two server processes on one database, each       *)
(* running register statement by statement                                 *)
ParallelInputs == [AllInputs EXCEPT !.roles = {"member", Omitted}]

NextParallel ==
    \/ RegisterBegin(ParallelInputs)
    \/ RegisterSelect
    \/ RegisterInsert
    \/ RegisterLog
    \/ RegisterReturn

SpecParallel == Init /\ [][NextParallel]_vars

(* The Slack bot: accounts of every role, the bot calling skip-trace with   *)
(* the token it holds                                                      *)
SlackInputs ==
    [AllInputs EXCEPT !.emails = {"a@x"}, !.passwords = {"pw1"},
                      !.logFaults = {FALSE}, !.touchFaults = {FALSE},
                      !.instants = {0, 86401}, !.strangers = {Garbage}]

NextSlack ==
    \/ Register(SlackInputs)
    \/ Login(SlackInputs)
    \/ SlackSkipTrace(SlackInputs)
    \/ Tick(SlackInputs)

SpecSlack == Init /\ [][NextSlack]_vars

----------------------------------------------------------------------------
(* Properties *)

ProtectedOps ==
    {"get_me", "search_properties", "lookup_property", "get_comps", "skip_trace",
     "search_buyers", "ai_query", "list_users", "get_activity"}

BusinessOps ==
    {"search_properties", "lookup_property", "get_comps", "skip_trace",
     "search_buyers", "ai_query"}

AddressOps == {"lookup_property", "get_comps", "skip_trace"}

RoleGatedOps == {"skip_trace", "list_users", "get_activity"}

(* the roles each operation declares *)
DeclaredRoles(op) ==
    IF op = "skip_trace" THEN {"admin", "manager", "acquisitions"}
    ELSE IF op = "list_users" THEN {"admin"}
    ELSE IF op = "get_activity" THEN {"admin", "manager"}
    ELSE Roles

DayInSeconds == 24 * 60 * 60

WellSigned(cred) == cred.kind = "jwt" /\ cred.key = JWT_SECRET

(* the credential is missing, malformed, wrongly signed, or past its expiry *)
FailsValidation(cred, t) == ~WellSigned(cred) \/ cred.payload.exp < t

(* the credential is a token of this API that has not reached its expiry *)
Validates(cred, t) == WellSigned(cred) /\ t < cred.payload.exp

HasRow(email) == \E i \in 1..Len(users) : users[i].email = email

Last(seq) == seq[Len(seq)]

(* C1: on a token-protected endpoint, a request whose token fails          *)
(* validation or whose role is not among the endpoint's allowed roles is   *)
(* rejected before any side effect: no activity_log row, no upstream call, *)
(* users unchanged.                                                        *)
C1_RejectedBeforeSideEffects ==
    [][(/\ req'.op \in ProtectedOps
        /\ \/ FailsValidation(req'.cred, now')
           \/ req'.cred.payload.role \notin DeclaredRoles(req'.op))
       => (/\ resp'.status \in {401, 403}
           /\ resp'.kind = "http_error"
           /\ resp'.calls = <<>>
           /\ activity_log' = activity_log
           /\ users' = users)]_vars

C1_Witness ==
    \/ /\ req.op = "skip_trace"
       /\ Validates(req.cred, now)
       /\ req.cred.payload.role = "member"
       /\ resp.status = 403
       /\ activity_log # <<>>
    \/ /\ req.op = "search_properties"
       /\ WellSigned(req.cred)
       /\ req.cred.payload.exp < now
       /\ resp.status = 401
       /\ activity_log # <<>>

(* C2: a validated claim passes a role-gated operation iff its role is in  *)
(* the operation's declared set (skip-trace: admin, manager, acquisitions; *)
(* user listing: admin; activity listing: admin, manager); otherwise the   *)
(* outcome is 403 Forbidden and no listing or result is produced.          *)
C2_RoleGate ==
    (req.op \in RoleGatedOps /\ Validates(req.cred, now))
    => IF req.cred.payload.role \in DeclaredRoles(req.op)
       THEN resp.status \notin {401, 403}
       ELSE /\ resp.status = 403
            /\ resp.detail = "Insufficient permissions"
            /\ resp.kind = "http_error"
            /\ resp.calls = <<>>

C2_Witness ==
    /\ req.op = "list_users"
    /\ Validates(req.cred, now)
    /\ req.cred.payload.role = "member"
    /\ resp.status = 403
    /\ users # <<>>

(* C3: register with an email already in the users table fails with 400,   *)
(* issues no token and leaves users and activity_log unchanged; no two     *)
(* user rows ever share an email.                                          *)
C3_DuplicateRejected ==
    [][/\ (req'.op = "register" /\ HasRow(req'.email))
          => (/\ resp'.status = 400
              /\ resp'.detail = "Email already registered"
              /\ resp'.token = NoToken
              /\ users' = users
              /\ activity_log' = activity_log)
       /\ \A i, j \in 1..Len(users') : i # j => users'[i].email # users'[j].email]_vars

C3_Witness ==
    /\ req.op = "register"
    /\ resp.status = 400
    /\ Len(users) = 2
    /\ HasRow(req.email)

(* C4: login for a user whose active flag is false fails even with the     *)
(* correct password: no token, last_login not updated, no login record.    *)
C4_InactiveLoginFails ==
    [][(/\ req'.op = "login"
        /\ \E i \in 1..Len(users) : users[i].email = req'.email /\ ~users[i].is_active)
       => (/\ resp'.status = 401
           /\ resp'.token = NoToken
           /\ users' = users
           /\ activity_log' = activity_log)]_vars

C4_Witness ==
    /\ req.op = "login"
    /\ req.password = PasswordOf[req.email]
    /\ \E i \in 1..Len(users) : users[i].email = req.email /\ ~users[i].is_active
    /\ resp.status = 401
    /\ resp.token = NoToken

(* C5: in every state of the users table, login with an email that has no  *)
(* row and login with an existing email (active or not) and a wrong        *)
(* password give the same status, error kind and message.                  *)
C5_NonEnumerable ==
    \A e1 \in Emails, e2 \in Emails, p1 \in Passwords, p2 \in Passwords :
        (~HasRow(e1) /\ HasRow(e2) /\ p2 # PasswordOf[e2])
        => LET unknown == login([email |-> e1, password |-> p1], FALSE, FALSE).resp
               wrong == login([email |-> e2, password |-> p2], FALSE, FALSE).resp
           IN /\ unknown.status = 401
              /\ wrong.status = unknown.status
              /\ wrong.kind = unknown.kind
              /\ wrong.detail = unknown.detail

C5_Witness ==
    /\ req.op = "login"
    /\ req.password # PasswordOf[req.email]
    /\ \E i \in 1..Len(users) : users[i].email = req.email /\ ~users[i].is_active
    /\ \E e \in Emails : ~HasRow(e)
    /\ resp.status = 401
    /\ resp.detail = "Invalid credentials"

(* C6: a token issued at time t carries expiry t + 24h; after any sequence *)
(* of operations it is rejected at every time past that expiry although    *)
(* its signature is valid, and accepted at every earlier time.             *)
C6_FixedExpiry ==
    /\ resp.kind = "token" => resp.token.payload.exp = now + DayInSeconds
    /\ \A tok \in wallet :
          /\ tok.payload.exp < now => ~decode_token(tok, now).ok
          /\ now < tok.payload.exp => decode_token(tok, now).ok
    /\ (req.op \in ProtectedOps /\ req.cred \in wallet)
       => /\ req.cred.payload.exp < now
             => resp.status = 401 /\ resp.detail = "Token expired"
          /\ now < req.cred.payload.exp => resp.status # 401

C6_Witness ==
    /\ req.op \in ProtectedOps
    /\ req.cred \in wallet
    /\ req.cred.payload.exp < now
    /\ resp.status = 401

(* C7: every validation failure - missing bearer token, malformed token,   *)
(* bad signature, expired token - ends in the one outcome 401, and the     *)
(* outcome is the same whichever failure it was.                           *)
C7_SingleUnauthenticated ==
    (req.op \in ProtectedOps /\ FailsValidation(req.cred, now))
    => /\ resp.status = 401
       /\ \A c \in Credentials(GuardInputs), refusal \in BearerRefusals :
             FailsValidation(c, now)
             => get_current_user(c, now, refusal).detail = resp.detail

(* the same request on the same state, with the audit insert working *)
Replay(r) ==
    IF r.op = "register"
    THEN register(UserCreate(r.email, r.password, NameOf[r.email], r.role), FALSE)
    ELSE IF r.op = "login"
    THEN login([email |-> r.email, password |-> r.password], r.touchFails, FALSE)
    ELSE IF r.op = "search_properties" THEN search_properties(r.cred, 401, r.net1, FALSE)
    ELSE IF r.op = "lookup_property" THEN lookup_property(r.cred, 401, r.net1, r.net2, FALSE)
    ELSE IF r.op = "get_comps" THEN get_comps(r.cred, 401, r.net1, r.net2, FALSE)
    ELSE IF r.op = "skip_trace" THEN skip_trace(r.cred, 401, r.net1, r.net2, FALSE)
    ELSE IF r.op = "search_buyers" THEN search_buyers(r.cred, 401, r.net1, FALSE)
    ELSE ai_query(r.cred, 401, r.ai, FALSE)

(* C8: a failure of the audit insert never reaches the caller: the         *)
(* outcome of a logging request is the same whether the insert succeeds    *)
(* or fails.                                                               *)
C8_AuditFailureInvisible ==
    [][req'.logFails
       => /\ resp'.status = Replay(req').resp.status
          /\ resp'.kind = Replay(req').resp.kind]_vars

(* the effect an activity record describes *)
EffectSucceeded ==
    IF req'.op = "register" THEN Len(users') = Len(users) + 1
    ELSE IF req'.op = "login"
    THEN \E i \in 1..Len(users) : users[i].email = req'.email /\ users'[i].last_login = now'
    ELSE IF req'.op \in {"search_properties", "search_buyers"}
    THEN Len(resp'.calls) = 1 /\ ~req'.net1.raised
    ELSE IF req'.op \in AddressOps
    THEN Len(resp'.calls) = 2 /\ ~req'.net1.raised /\ ~req'.net2.raised
    ELSE req'.op = "ai_query" /\ Len(resp'.calls) = 1 /\ req'.ai # "raise"

(* C9 as stated: an activity record is written only if the effect it       *)
(* describes - user row committed, last_login updated, upstream call       *)
(* returned successfully - happened earlier in the same request.           *)
C9_LogOnlyAfterSuccess ==
    [][activity_log' # activity_log => EffectSucceeded]_vars

(* the step an activity record describes has completed: the row is         *)
(* committed, last_login is updated, or the gateway has returned a value   *)
StepCompleted ==
    IF req'.op = "register"
    THEN Len(users') = Len(users) + 1 /\ Last(users').email = req'.email
    ELSE IF req'.op = "login"
    THEN \E i \in 1..Len(users) : users[i].email = req'.email /\ users'[i].last_login = now'
    ELSE IF req'.op \in {"search_properties", "search_buyers"}
    THEN Len(resp'.calls) = 1
    ELSE IF req'.op \in AddressOps
    THEN Len(resp'.calls) = 2 /\ ~req'.net1.raised /\ req'.net1.data # <<>>
    ELSE req'.op = "ai_query" /\ req'.ai # "raise"

(* C9, amended: an activity record is written only after the step it       *)
(* describes has completed in the same request: user row committed,        *)
(* last_login updated, or the gateway call returned to the handler, with a *)
(* result or with the error value that stands for a failed call.           *)
C9_LogOnlyAfterStep ==
    [][activity_log' # activity_log
       => /\ Len(activity_log') = Len(activity_log) + 1
          /\ resp'.status = 200
          /\ StepCompleted]_vars

C9_Witness ==
    /\ req.op = "search_properties"
    /\ req.net1 = NetRaise
    /\ resp.status = 200
    /\ resp.kind = "error_value"
    /\ activity_log # <<>>
    /\ Last(activity_log).action = "property_search"

(* an outbound call of the request failed *)
UpstreamFailed ==
    /\ resp'.calls # <<>>
    /\ \/ req'.op \in {"search_properties", "search_buyers"} /\ req'.net1.raised
       \/ req'.op \in AddressOps /\ req'.net1.raised
       \/ req'.op \in AddressOps /\ Len(resp'.calls) = 2 /\ req'.net2.raised
       \/ req'.op = "ai_query" /\ req'.ai = "raise"

(* C10: when an outbound call fails, the business handler still appends    *)
(* its activity record and returns a structured non-5xx payload instead of *)
(* raising.                                                                *)
C10_UpstreamFailureIsData ==
    [][(req'.op \in BusinessOps /\ UpstreamFailed /\ ~req'.logFails)
       => (/\ resp'.status = 200
           /\ resp'.kind \notin {"http_error", "server_error"}
           /\ Len(activity_log') = Len(activity_log) + 1)]_vars

(* C11: the activity listing returns min(limit, number of records) rows,   *)
(* which are the most recently appended records, newest first, also when   *)
(* records carry the same created_at.                                      *)
C11_NewestFirst ==
    (req.op = "get_activity" /\ resp.kind = "activity")
    => LET n == Len(activity_log)
           k == Min(req.limit, n)
       IN /\ Len(resp.body) = k
          /\ \A i \in 1..k : resp.body[i].id = activity_log[n + 1 - i].id

(* C12: the activity log is append-only: every step keeps the existing     *)
(* records, with all their fields, and never shortens the log.             *)
C12_AppendOnly ==
    [][/\ Len(activity_log') >= Len(activity_log)
       /\ \A i \in 1..Len(activity_log) : activity_log'[i] = activity_log[i]]_vars

C12_Witness ==
    /\ Len(activity_log) = 2
    /\ req.op \in BusinessOps
    /\ resp.status = 200
    /\ activity_log[1].action = "register"
    /\ activity_log[2].user_id = req.cred.payload.user_id

C14_MeMatchesRegistration ==
    [][/\ (req'.op = "register" /\ resp'.status = 200)
          => /\ Last(users').email = req'.email
             /\ Last(users').name = NameOf[req'.email]
             /\ Last(users').role = (IF req'.role = Omitted THEN "member" ELSE req'.role)
             /\ resp'.token.payload.user_id = Last(users').id
             /\ resp'.token.payload.email = req'.email
             /\ resp'.token.payload.role = Last(users').role
       /\ \A i \in 1..Len(users) :
             /\ users'[i].id = users[i].id
             /\ users'[i].email = users[i].email
             /\ users'[i].name = users[i].name
             /\ users'[i].role = users[i].role
       /\ (req'.op = "get_me" /\ Validates(req'.cred, now'))
          => IF \E i \in 1..Len(users) : users[i].id = req'.cred.payload.user_id
             THEN /\ resp'.status = 200
                  /\ \E i \in 1..Len(users) :
                        /\ users[i].id = req'.cred.payload.user_id
                        /\ resp'.body = UserResponse(users[i].id, users[i].email,
                                                     users[i].name, users[i].role, TRUE)
                  /\ resp'.body.id = req'.cred.payload.user_id
                  /\ resp'.body.email = req'.cred.payload.email
                  /\ resp'.body.name = NameOf[req'.cred.payload.email]
                  /\ resp'.body.role = req'.cred.payload.role
             ELSE /\ resp'.status = 404
                  /\ resp'.kind = "http_error"
                  /\ resp'.detail = "User not found"]_vars

C14_Witness ==
    /\ req.op = "get_me"
    /\ req.cred \in wallet
    /\ resp.status = 200
    /\ resp.body.role = "member"
    /\ resp.body.id = 2
    /\ users[2].last_login = NULL

(* the 404 case: a well-signed token whose user has no row *)
C14_OrphanSeen ==
    /\ req.op = "get_me"
    /\ req.cred = Orphan
    /\ resp.status = 404
    /\ users # <<>>

(* C15: the last_login update is best-effort: when it fails, a login with  *)
(* the right password for an active user still returns 200 with a token.   *)
C15_TouchBestEffort ==
    [][(/\ req'.op = "login"
        /\ req'.touchFails
        /\ \E i \in 1..Len(users) :
              /\ users[i].email = req'.email
              /\ users[i].is_active
              /\ bcrypt_verify(req'.password, users[i].password_hash))
       => (/\ resp'.status = 200
           /\ resp'.kind = "token"
           /\ resp'.token.kind = "jwt")]_vars

(* C16: a token is a snapshot with no revocation: up to its expiry an      *)
(* issued token passes authentication and the role guard decides on the    *)
(* role encoded in it, whatever the user's stored role and active flag     *)
(* have become; a changed role shows only in tokens issued afterwards.     *)
C16_TokenSnapshot ==
    [][/\ \A tok \in wallet :
             now < tok.payload.exp
             => /\ get_current_user(tok, now, 401).ok
                /\ get_current_user(tok, now, 401).payload = tok.payload
                /\ \A op \in RoleGatedOps :
                      require_role(DeclaredRoles(op), tok, now, 401).ok
                      <=> tok.payload.role \in DeclaredRoles(op)
       /\ (req'.op \in {"get_me", "list_users"} /\ req'.cred \in wallet
           /\ now' < req'.cred.payload.exp)
          => resp'.status = (IF req'.cred.payload.role \in DeclaredRoles(req'.op)
                             THEN 200 ELSE 403)
       /\ (req'.op = "login" /\ resp'.status = 200)
          => \E i \in 1..Len(users) :
                /\ users[i].email = req'.email
                /\ resp'.token.payload.role = users[i].role]_vars

C16_Witness ==
    /\ req.op = "list_users"
    /\ resp.status = 200
    /\ req.cred.payload.role = "admin"
    /\ now = 86399
    /\ \E i \in 1..Len(users) :
          /\ users[i].id = req.cred.payload.user_id
          /\ users[i].role = "member"
          /\ ~users[i].is_active

(* C17: with register requests handled in parallel, statement by           *)
(* statement, two requests for the same unused email end with exactly one  *)
(* row for the email, one request returning a token and the other failing  *)
(* with 400 and not with an unclassified storage error.                    *)
C17_RaceIsDuplicate ==
    \A w1, w2 \in Workers :
        (/\ w1 # w2
         /\ workers[w1].pc = "done" /\ workers[w2].pc = "done"
         /\ workers[w1].email = workers[w2].email
         /\ workers[w1].fresh /\ workers[w2].fresh)
        => /\ Cardinality(FindByEmail(workers[w1].email)) = 1
           /\ {workers[w1].resp.status, workers[w2].resp.status} = {200, 400}
           /\ {workers[w1].resp.token.kind, workers[w2].resp.token.kind} = {"jwt", "none"}

(* the candidates the autocomplete step yields: none when the call failed *)
Candidates(net) == IF net.raised THEN <<>> ELSE net.data

SecondEndpoint(op) ==
    IF op = "lookup_property" THEN "PropertyDetail"
    ELSE IF op = "get_comps" THEN "PropertyComps"
    ELSE "SkipTrace"

(* C18: property lookup, comps and skip-trace end in 404 only when the     *)
(* autocomplete step yields no candidates, and then make no second         *)
(* upstream call and write no activity record; otherwise the second call   *)
(* carries the address id of the first candidate and the request does not  *)
(* end in 404.                                                             *)
C18_NotFoundOnlyWithoutCandidates ==
    [][(req'.op \in AddressOps /\ resp'.status \notin {401, 403})
       => IF Candidates(req'.net1) = <<>>
          THEN /\ resp'.status = 404
               /\ resp'.calls = <<Call("AutoComplete", Address)>>
               /\ activity_log' = activity_log
          ELSE /\ resp'.status # 404
               /\ Len(resp'.calls) = 2
               /\ resp'.calls[2] = Call(SecondEndpoint(req'.op), Candidates(req'.net1)[1])]_vars

C18_Witness ==
    /\ req.op = "skip_trace"
    /\ req.net1 = NetEmpty
    /\ resp.status = 404
    /\ resp.detail = "Address not found"
    /\ Len(resp.calls) = 1
    /\ Len(activity_log) = 1

(* the other case: candidates, and a second call that fails *)
C18_SecondCallSeen ==
    /\ req.op = "get_comps"
    /\ req.net1 = NetHit
    /\ req.net2 = NetRaise
    /\ resp.status = 200
    /\ resp.calls[2] = Call("PropertyComps", "A1")

(* C19: when the API refuses the bot's skip-trace request with 403, the    *)
(* bot posts the 'restricted to managers and acquisitions team' message    *)
(* and no Skip Trace Results block.                                        *)
C19_ForbiddenIsReported ==
    (req.op = "slack_skip_trace" /\ resp.status = 403
     /\ resp.detail = "Insufficient permissions")
    => /\ \E i \in 1..Len(slack) : slack[i] = Restricted
       /\ \A i \in 1..Len(slack) : slack[i] # Results

LoggingOps == {"register", "login"} \cup BusinessOps

SilentOps == {"get_me", "list_users", "get_activity", "health_check", "root"}

(* the user a request acts for: the account it names, or its token's user *)
Actor(r, rows) ==
    IF r.op \in {"register", "login"}
    THEN rows[CHOOSE i \in 1..Len(rows) : rows[i].email = r.email].id
    ELSE r.cred.payload.user_id

(* C20: a request that completes successfully on register, login or a     *)
(* business endpoint appends exactly one activity record, whose actor is   *)
(* the registered or logged-in user's id or the user id of the presented   *)
(* token; /auth/me, the admin listings, /health and / append none.         *)
C20_OneRecordPerSuccess ==
    [][/\ (req'.op \in LoggingOps /\ resp'.status = 200)
          => /\ Len(activity_log') = Len(activity_log) + 1
             /\ \A i \in 1..Len(activity_log) : activity_log'[i] = activity_log[i]
             /\ Last(activity_log').user_id = Actor(req', users')
       /\ req'.op \in SilentOps => activity_log' = activity_log]_vars

C20_Witness ==
    /\ req.op = "ai_query"
    /\ resp.status = 200
    /\ Len(activity_log) = 2
    /\ Last(activity_log).action = "ai_query"
    /\ Last(activity_log).user_id = req.cred.payload.user_id

(* an endpoint that writes no record, called with a record in the log *)
C20_SilentSeen ==
    /\ req.op = "list_users"
    /\ resp.status = 200
    /\ Len(activity_log) = 1

====
